---- MODULE Spec2Model ----
(***************************************************************************)
(* The chat widget of barista-agent (frontend/app/page.tsx, component      *)
(* Home) as a state machine.                                               *)
(*                                                                         *)
(* The state is the component's useState cells plus the fetch requests     *)
(* that are in flight.  Every event handler runs to its first await (or    *)
(* to its end) in one step: JavaScript is single threaded and React        *)
(* commits the state updates of one handler run, and of one continuation   *)
(* after an await, before the next event is dispatched.  A request is      *)
(* answered by the backend in one step (Answer) and the handler that       *)
(* awaits it resumes in a later one (...Resume).                           *)
(*                                                                         *)
(* JavaScript values that can be undefined or null at run time are tagged  *)
(* records ([t |-> "string", s |-> ...], [t |-> "undefined"], ...), and a  *)
(* text is a sequence of characters; a literal of the source is kept as a  *)
(* single chunk.  The id field of a Message (a React key built from the    *)
(* clock and a random number) is not modelled.                             *)
(***************************************************************************)
EXTENDS Integers, Sequences, FiniteSets, TLC

VARIABLES mounted, messages, input, isLoading, sessionId, isFinished,
          inflight, nextSid, lastOp

vars == <<mounted, messages, input, isLoading, sessionId, isFinished,
          inflight, nextSid, lastOp>>

widget == <<messages, input, isLoading, sessionId, isFinished>>

(***************************************************************************)
(* Bounds                                                                  *)
(***************************************************************************)
MaxInputLen == 2
MaxMessages == 5
MaxSessions == 2

(***************************************************************************)
(* JavaScript values                                                       *)
(***************************************************************************)
Undefined == [t |-> "undefined"]
Null == [t |-> "null"]
Absent == [t |-> "absent"]
Bool(b) == [t |-> "boolean", b |-> b]
Str(s) == [t |-> "string", s |-> s]

IsString(v) == v.t = "string"
IsBoolean(v) == v.t = "boolean"

\* ToBoolean of a value that is a boolean or undefined.
Truthy(v) == v.t = "boolean" /\ v.b

\* Property access on a parsed JSON object: a missing key reads undefined.
Get(data, key) == IF key \in DOMAIN data THEN data[key] ELSE Undefined

\* JSON.stringify of an object member: a member whose value is undefined
\* is left out of the text, null is written as null.
JSONMember(v) == IF v = Undefined THEN Absent ELSE v

(***************************************************************************)
(* Texts                                                                   *)
(***************************************************************************)
Chars == {" ", "a"}

RECURSIVE TextsOfLen(_)
TextsOfLen(n) ==
    IF n = 0 THEN {<<>>}
    ELSE {Append(s, c) : s \in TextsOfLen(n - 1), c \in Chars}

Texts == UNION {TextsOfLen(n) : n \in 0..MaxInputLen}

IsSpace(c) == c = " "

RECURSIVE TrimStart(_)
TrimStart(s) ==
    IF s = <<>> THEN s
    ELSE IF IsSpace(Head(s)) THEN TrimStart(Tail(s)) ELSE s

RECURSIVE TrimEnd(_)
TrimEnd(s) ==
    IF s = <<>> THEN s
    ELSE IF IsSpace(s[Len(s)]) THEN TrimEnd(SubSeq(s, 1, Len(s) - 1)) ELSE s

\* String.prototype.trim
Trim(s) == TrimEnd(TrimStart(s))

StartApology ==
    <<"Sorry, I couldn't connect to the server. Please try again later.">>
ChatApology == <<"Sorry, something went wrong. Please try again.">>

\* What the backend can say.
Greetings == {<<"hello">>}
Replies == {<<"ok">>}
ErrorText == <<"error">>
SessionIdOf(n) == Str(<<"s", ToString(n)>>)

(***************************************************************************)
(* Messages and requests                                                   *)
(***************************************************************************)
\* session is a history field: the session of the exchange the message
\* belongs to.  The widget does not store it.
Message(role, content, session) ==
    [role |-> role, content |-> content, session |-> session]

Pending == [t |-> "pending"]
Rejected == [t |-> "rejected"]
Resolved(data) == [t |-> "resolved", data |-> data]

NoBody == [t |-> "none"]
StartRequest == [endpoint |-> "/start", body |-> NoBody, outcome |-> Pending]
ChatRequest(message, sid) ==
    [endpoint |-> "/chat",
     body |-> [message |-> message, session_id |-> JSONMember(sid)],
     outcome |-> Pending]

RemoveAt(s, i) == SubSeq(s, 1, i - 1) \o SubSeq(s, i + 1, Len(s))

ChatsInFlight == {i \in 1..Len(inflight) : inflight[i].endpoint = "/chat"}
StartsInFlight == {i \in 1..Len(inflight) : inflight[i].endpoint = "/start"}

(***************************************************************************)
(* What is rendered (the JSX returned by Home)                             *)
(***************************************************************************)
\* isFinished ? <Start New Order button> : <form>
ResetRenderedAlways(fin) == TRUE

ResetRendered(fin) == Truthy(fin)

FormRendered(fin) == ~Truthy(fin)

\* <input disabled={isLoading}>
InputDisabled(loading) == loading

(***************************************************************************)
(* startConversation                                                       *)
(***************************************************************************)
\* Up to the await of fetch: setIsLoading(true), then POST /start.
StartConversationBeginNoLoading(cur) ==
    [isLoading |-> cur.isLoading,
     inflight |-> Append(cur.inflight, StartRequest)]

StartConversationBegin(cur) ==
    [isLoading |-> TRUE,
     inflight |-> Append(cur.inflight, StartRequest)]

\* After the await: the try block on a parsed body, the catch block on a
\* fetch or a json() that threw; setIsLoading(false) follows both.
StartConversationSettleLoadingInTry(outcome, cur) ==
    IF outcome.t = "resolved"
    THEN [sessionId |-> Get(outcome.data, "session_id"),
          messages |-> <<Message("assistant", Get(outcome.data, "response"),
                                 JSONMember(Get(outcome.data, "session_id")))>>,
          isFinished |-> Get(outcome.data, "finished"),
          isLoading |-> FALSE]
    ELSE [sessionId |-> cur.sessionId,
          messages |-> <<Message("assistant", Str(StartApology),
                                 JSONMember(cur.sessionId))>>,
          isFinished |-> cur.isFinished,
          isLoading |-> cur.isLoading]

StartConversationSettle(outcome, cur) ==
    IF outcome.t = "resolved"
    THEN [sessionId |-> Get(outcome.data, "session_id"),
          messages |-> <<Message("assistant", Get(outcome.data, "response"),
                                 JSONMember(Get(outcome.data, "session_id")))>>,
          isFinished |-> Get(outcome.data, "finished"),
          isLoading |-> FALSE]
    ELSE [sessionId |-> cur.sessionId,
          messages |-> <<Message("assistant", Str(StartApology),
                                 JSONMember(cur.sessionId))>>,
          isFinished |-> cur.isFinished,
          isLoading |-> FALSE]

(***************************************************************************)
(* sendMessage                                                             *)
(***************************************************************************)
\* if (!input.trim() || isLoading || isFinished) return;
SubmitRejectedNoTrim(inp, loading, fin) ==
    inp = <<>> \/ loading \/ Truthy(fin)

SubmitRejected(inp, loading, fin) ==
    Trim(inp) = <<>> \/ loading \/ Truthy(fin)

\* Up to the await of fetch: the input is cleared, the user's message is
\* appended, isLoading is set and POST /chat is sent.
SendMessageBeginNoLoading(cur) ==
    LET userMessage == Trim(cur.input)
    IN [input |-> <<>>,
        messages |-> Append(cur.messages,
                            Message("user", Str(userMessage),
                                    JSONMember(cur.sessionId))),
        isLoading |-> cur.isLoading,
        inflight |-> Append(cur.inflight,
                            ChatRequest(userMessage, cur.sessionId))]

SendMessageBegin(cur) ==
    LET userMessage == Trim(cur.input)
    IN [input |-> <<>>,
        messages |-> Append(cur.messages,
                            Message("user", Str(userMessage),
                                    JSONMember(cur.sessionId))),
        isLoading |-> TRUE,
        inflight |-> Append(cur.inflight,
                            ChatRequest(userMessage, cur.sessionId))]

\* After the await: the reply of a parsed body is appended, or the apology
\* when fetch or json() threw; setIsLoading(false) follows both.
SendMessageSettleSilentCatch(req, cur) ==
    IF req.outcome.t = "resolved"
    THEN [messages |-> Append(cur.messages,
                              Message("assistant",
                                      Get(req.outcome.data, "response"),
                                      req.body.session_id)),
          isFinished |-> Get(req.outcome.data, "finished"),
          isLoading |-> FALSE]
    ELSE [messages |-> cur.messages,
          isFinished |-> cur.isFinished,
          isLoading |-> FALSE]

SendMessageSettle(req, cur) ==
    IF req.outcome.t = "resolved"
    THEN [messages |-> Append(cur.messages,
                              Message("assistant",
                                      Get(req.outcome.data, "response"),
                                      req.body.session_id)),
          isFinished |-> Get(req.outcome.data, "finished"),
          isLoading |-> FALSE]
    ELSE [messages |-> Append(cur.messages,
                              Message("assistant", Str(ChatApology),
                                      req.body.session_id)),
          isFinished |-> cur.isFinished,
          isLoading |-> FALSE]

(***************************************************************************)
(* State and steps                                                         *)
(***************************************************************************)
Init ==
    /\ mounted = FALSE
    /\ messages = <<>>
    /\ input = <<>>
    /\ isLoading = FALSE
    /\ sessionId = Null
    /\ isFinished = Bool(FALSE)
    /\ inflight = <<>>
    /\ nextSid = 1
    /\ lastOp = "init"

\* useEffect(() => { startConversation(); }, [startConversation]): the
\* effect of the first commit runs once, before any event is handled
\* (API_URL never changes, so startConversation keeps its identity; the
\* second run of effects that StrictMode adds in development builds is not
\* part of the production behaviour modelled here).
Mount ==
    /\ ~mounted
    /\ mounted' = TRUE
    /\ LET r == StartConversationBegin([isLoading |-> isLoading,
                                         inflight |-> inflight])
       IN /\ isLoading' = r.isLoading
          /\ inflight' = r.inflight
    /\ lastOp' = "mount"
    /\ UNCHANGED <<messages, input, sessionId, isFinished, nextSid>>

\* onChange={(e) => setInput(e.target.value)} of the rendered, enabled input.
OnChange(v) ==
    /\ mounted
    /\ FormRendered(isFinished)
    /\ ~InputDisabled(isLoading)
    /\ input' = v
    /\ lastOp' = "onChange"
    /\ UNCHANGED <<mounted, messages, isLoading, sessionId, isFinished,
                   inflight, nextSid>>

\* The submit handler.  Its own guard decides what a submit does, so the
\* model lets a submit arrive in every state of the mounted component.
SendMessage ==
    /\ mounted
    /\ lastOp' = "sendMessage"
    /\ IF SubmitRejected(input, isLoading, isFinished)
       THEN UNCHANGED <<mounted, messages, input, isLoading, sessionId,
                        isFinished, inflight, nextSid>>
       ELSE /\ Len(messages) + 2 <= MaxMessages
            /\ LET r == SendMessageBegin([input |-> input,
                                          messages |-> messages,
                                          isLoading |-> isLoading,
                                          sessionId |-> sessionId,
                                          inflight |-> inflight])
               IN /\ input' = r.input
                  /\ messages' = r.messages
                  /\ isLoading' = r.isLoading
                  /\ inflight' = r.inflight
            /\ UNCHANGED <<mounted, sessionId, isFinished, nextSid>>

\* onClick of the Start New Order button, which exists only while the
\* button is rendered.
ResetConversation ==
    /\ mounted
    /\ ResetRendered(isFinished)
    /\ messages' = <<>>
    /\ sessionId' = Null
    /\ isFinished' = Bool(FALSE)
    /\ LET r == StartConversationBegin([isLoading |-> isLoading,
                                         inflight |-> inflight])
       IN /\ isLoading' = r.isLoading
          /\ inflight' = r.inflight
    /\ lastOp' = "resetConversation"
    /\ UNCHANGED <<mounted, input, nextSid>>

\* The backend, or the network, settles a pending request: a success body,
\* a non-2xx answer with a JSON {error} body, or a failure that makes
\* fetch or json() throw.  Session ids are handed out fresh.
StartBodies ==
    {[session_id |-> SessionIdOf(nextSid), response |-> Str(g),
      finished |-> Bool(f)] : g \in Greetings, f \in BOOLEAN}

ChatBodies ==
    {[response |-> Str(r), finished |-> Bool(f)] : r \in Replies, f \in BOOLEAN}

ErrorBody == [error |-> Str(ErrorText)]

Settle(i, outcome) ==
    /\ inflight' = [inflight EXCEPT ![i].outcome = outcome]
    /\ lastOp' = "answer"

AnswerStartOk(i) ==
    /\ i \in StartsInFlight
    /\ inflight[i].outcome = Pending
    /\ nextSid <= MaxSessions
    /\ \E d \in StartBodies : Settle(i, Resolved(d))
    /\ nextSid' = nextSid + 1
    /\ UNCHANGED <<mounted, messages, input, isLoading, sessionId, isFinished>>

AnswerChatOk(i) ==
    /\ i \in ChatsInFlight
    /\ inflight[i].outcome = Pending
    /\ \E d \in ChatBodies : Settle(i, Resolved(d))
    /\ UNCHANGED <<mounted, messages, input, isLoading, sessionId, isFinished,
                   nextSid>>

AnswerError(i) ==
    /\ i \in 1..Len(inflight)
    /\ inflight[i].outcome = Pending
    /\ Settle(i, Resolved(ErrorBody))
    /\ UNCHANGED <<mounted, messages, input, isLoading, sessionId, isFinished,
                   nextSid>>

AnswerThrow(i) ==
    /\ i \in 1..Len(inflight)
    /\ inflight[i].outcome = Pending
    /\ Settle(i, Rejected)
    /\ UNCHANGED <<mounted, messages, input, isLoading, sessionId, isFinished,
                   nextSid>>

Answer ==
    \E i \in 1..Len(inflight) :
        AnswerStartOk(i) \/ AnswerChatOk(i) \/ AnswerError(i) \/ AnswerThrow(i)

\* startConversation resumes after its await.
StartConversationResume(i) ==
    /\ i \in StartsInFlight
    /\ inflight[i].outcome # Pending
    /\ LET r == StartConversationSettle(inflight[i].outcome,
                                        [sessionId |-> sessionId,
                                         messages |-> messages,
                                         isFinished |-> isFinished,
                                         isLoading |-> isLoading])
       IN /\ sessionId' = r.sessionId
          /\ messages' = r.messages
          /\ isFinished' = r.isFinished
          /\ isLoading' = r.isLoading
    /\ inflight' = RemoveAt(inflight, i)
    /\ lastOp' = "startConversation.resume"
    /\ UNCHANGED <<mounted, input, nextSid>>

\* sendMessage resumes after its await.
SendMessageResume(i) ==
    /\ i \in ChatsInFlight
    /\ inflight[i].outcome # Pending
    /\ LET r == SendMessageSettle(inflight[i],
                                  [messages |-> messages,
                                   isFinished |-> isFinished,
                                   isLoading |-> isLoading])
       IN /\ messages' = r.messages
          /\ isFinished' = r.isFinished
          /\ isLoading' = r.isLoading
    /\ inflight' = RemoveAt(inflight, i)
    /\ lastOp' = "sendMessage.resume"
    /\ UNCHANGED <<mounted, input, sessionId, nextSid>>

Resume ==
    \E i \in 1..Len(inflight) :
        StartConversationResume(i) \/ SendMessageResume(i)

Next ==
    \/ Mount
    \/ \E v \in Texts : OnChange(v)
    \/ SendMessage
    \/ ResetConversation
    \/ \E i \in 1..Len(inflight) : AnswerStartOk(i)
    \/ \E i \in 1..Len(inflight) : AnswerChatOk(i)
    \/ \E i \in 1..Len(inflight) : AnswerError(i)
    \/ \E i \in 1..Len(inflight) : AnswerThrow(i)
    \/ \E i \in 1..Len(inflight) : StartConversationResume(i)
    \/ \E i \in 1..Len(inflight) : SendMessageResume(i)

Spec == Init /\ [][Next]_vars

\* Every request eventually resolves or throws, and a settled promise's
\* continuation is run by the event loop.
FairSpec == Spec /\ WF_vars(Answer) /\ WF_vars(Resume)

(***************************************************************************)
(* Properties                                                              *)
(***************************************************************************)
\* The step appends a POST /chat request to the requests in flight.
SendsChat ==
    /\ Len(inflight') = Len(inflight) + 1
    /\ inflight'[Len(inflight')].endpoint = "/chat"

\* The request whose awaiting handler resumes in the step, if any.
Resumed == {i \in 1..Len(inflight) :
               /\ inflight[i].outcome # Pending
               /\ inflight' = RemoveAt(inflight, i)}

IsErrorBody(outcome) ==
    outcome.t = "resolved" /\ "error" \in DOMAIN outcome.data

IsSuccess(outcome) == outcome.t = "resolved" /\ ~IsErrorBody(outcome)

IsFailure(outcome) == outcome.t = "rejected" \/ IsErrorBody(outcome)

\* C1: no POST /chat is sent while isFinished is true, and isFinished, once
\* true, stays true until resetConversation runs.
C1_FinishedBlocksChat ==
    [][/\ Truthy(isFinished) => ~SendsChat
       /\ (Truthy(isFinished) /\ ~Truthy(isFinished'))
              => lastOp' = "resetConversation"]_vars

\* C1 witness: a submit arrived while the order was finished.
C1_Witness == Truthy(isFinished) /\ lastOp = "sendMessage"

\* C2 (as claimed): every POST /chat in flight carries a session_id that is
\* a string handed out by an earlier successful POST /start and is the
\* widget's current session.
C2_ChatCarriesIssuedSession ==
    \A i \in ChatsInFlight :
        /\ IsString(inflight[i].body.session_id)
        /\ inflight[i].body.session_id \in
               {SessionIdOf(n) : n \in 1..(nextSid - 1)}
        /\ inflight[i].body.session_id = sessionId

\* C3: a submit with blank input, or while loading, or while finished,
\* sends nothing and changes nothing; every POST /chat in flight carries a
\* non-empty trimmed message.
C3_RejectedSubmitIsNoOp ==
    /\ [](\A i \in ChatsInFlight :
              /\ inflight[i].body.message # <<>>
              /\ inflight[i].body.message = Trim(inflight[i].body.message))
    /\ [][(/\ lastOp' = "sendMessage"
           /\ \/ Trim(input) = <<>>
              \/ isLoading
              \/ Truthy(isFinished))
              => UNCHANGED <<widget, inflight>>]_vars

\* C3 witness: a submit arrived with whitespace-only input and left it.
C3_Witness ==
    /\ lastOp = "sendMessage"
    /\ input # <<>>
    /\ Trim(input) = <<>>
    /\ ~isLoading

\* C4: at most one request, and so at most one POST /chat per session id,
\* is outstanding in every reachable state.
C4_OneChatInFlight ==
    /\ Len(inflight) <= 1
    /\ \A i, j \in ChatsInFlight :
           inflight[i].body.session_id = inflight[j].body.session_id => i = j

\* C4 witness: a chat request is outstanding after an earlier exchange of
\* the same session completed.
C4_Witness ==
    /\ ChatsInFlight # {}
    /\ Len(messages) >= 4
    /\ isLoading

\* C5: the reset button is never available while a POST /chat is in flight,
\* a reset leaves an empty list, and every message of the list belongs to
\* the widget's current session.
C5_TranscriptOfOneSession ==
    /\ ResetRendered(isFinished) => ChatsInFlight = {}
    /\ lastOp = "resetConversation" => messages = <<>>
    /\ \A k \in 1..Len(messages) :
           messages[k].session = JSONMember(sessionId)

\* C5 witness: after a reset, a reply was appended in the second session.
C5_Witness ==
    /\ sessionId = SessionIdOf(2)
    /\ Len(messages) >= 3
    /\ lastOp = "sendMessage.resume"

\* C6 (as claimed): a successful POST /start replaces sessionId, the list
\* and isFinished by the response; a failed one leaves exactly the apology
\* and keeps sessionId and isFinished.
C6_StartSettles ==
    [][lastOp' = "startConversation.resume" =>
           \A i \in Resumed :
               LET o == inflight[i].outcome
               IN IF IsSuccess(o)
                  THEN /\ sessionId' = o.data.session_id
                       /\ Len(messages') = 1
                       /\ messages'[1].role = "assistant"
                       /\ messages'[1].content = o.data.response
                       /\ isFinished' = o.data.finished
                  ELSE /\ Len(messages') = 1
                       /\ messages'[1].role = "assistant"
                       /\ messages'[1].content = Str(StartApology)
                       /\ sessionId' = sessionId
                       /\ isFinished' = isFinished]_vars

\* C7 (as claimed): a failed POST /chat appends exactly one assistant
\* apology and keeps sessionId and isFinished.
C7_ChatFailureAppendsApology ==
    [][lastOp' = "sendMessage.resume" =>
           \A i \in Resumed :
               IsFailure(inflight[i].outcome) =>
                   /\ Len(messages') = Len(messages) + 1
                   /\ SubSeq(messages', 1, Len(messages)) = messages
                   /\ messages'[Len(messages')].role = "assistant"
                   /\ messages'[Len(messages')].content = Str(ChatApology)
                   /\ sessionId' = sessionId
                   /\ isFinished' = isFinished]_vars

\* C8 (as claimed): every message has a string content and isFinished is a
\* boolean.
C8_StateIsTyped ==
    /\ \A k \in 1..Len(messages) : IsString(messages[k].content)
    /\ IsBoolean(isFinished)

\* C9: the list alternates assistant, user, assistant, ... and only a reset
\* takes messages away; an accepted submit appends one user message and the
\* completion of its request one assistant message.
C9_AppendOnlyAlternating ==
    /\ [](\A k \in 1..Len(messages) :
              messages[k].role = IF k % 2 = 1 THEN "assistant" ELSE "user")
    /\ [][/\ lastOp' # "resetConversation" =>
                 /\ Len(messages') >= Len(messages)
                 /\ SubSeq(messages', 1, Len(messages)) = messages
          /\ SendsChat =>
                 /\ Len(messages') = Len(messages) + 1
                 /\ messages'[Len(messages')].role = "user"
          /\ lastOp' = "sendMessage.resume" =>
                 /\ Len(messages') = Len(messages) + 1
                 /\ messages'[Len(messages')].role = "assistant"]_vars

\* C9 witness: a second exchange of one conversation completed after the
\* first one had failed.
C9_Witness ==
    /\ Len(messages) = 5
    /\ messages[3].content = Str(ChatApology)
    /\ lastOp = "sendMessage.resume"

\* C10: isLoading is true exactly while a request is in flight, and when
\* every request is eventually settled it always returns to false.
C10_LoadingEnds ==
    /\ [](isLoading <=> inflight # <<>>)
    /\ [](isLoading => <>(~isLoading))

\* C10 witness: loading ended on the failure path of a chat request.
C10_Witness ==
    /\ ~isLoading
    /\ lastOp = "sendMessage.resume"
    /\ messages[Len(messages)].content = Str(ChatApology)

====
